---------------------------- MODULE Spec2Model ----------------------------
(***************************************************************************)
(* A model of rst/make_api_rst.py: the subgroup extractor                  *)
(* (current_subgroup, extract_package_subgroups) and the documentation     *)
(* tree emitter (generate_docs).                                           *)
(*                                                                         *)
(* Python strings are modelled as sequences of one-character strings, so   *)
(* that slicing, str.replace and the regular expression are computed on    *)
(* characters as the code computes them.                                   *)
(***************************************************************************)
EXTENDS Naturals, Sequences, FiniteSets

VARIABLES
    class_name,   \* SpecToken: the argument of current_subgroup
    first_word,   \* SpecToken: what current_subgroup returned
    tpc,          \* SpecToken: "ready" before the call, "returned" after it
    package,      \* SpecExtract: the names the package hands to dir()
    classes,      \* SpecExtract: dir(package), the identifier listing
    result,       \* SpecExtract: the OrderedDict extract_package_subgroups returned
    xpc,          \* SpecExtract: "ready" before the call, "returned" after it
    listing,      \* Spec: dir(package) of each package, by package name
    fs,           \* Spec: the file system, [dirs, files]
    pc,           \* Spec: the position in generate_docs
    handles,      \* Spec: the paths of index, package_index, subgroup_index, class_rst
    open_files,   \* Spec: the paths of the file objects that are open
    pi,           \* Spec: position of the package loop in packages.items()
    package_subgroups, \* Spec: the mapping of the current package
    si,           \* Spec: position of the subgroup loop in package_subgroups.items()
    ci,           \* Spec: position of the class loop in classes
    runs,         \* Spec: how many times generate_docs has been started
    prev_fs       \* Spec: the file system when the current run was started

tokenVars == <<class_name, first_word, tpc>>
extractVars == <<package, classes, result, xpc>>
docsVars == <<listing, fs, pc, handles, open_files, pi, package_subgroups, si, ci,
              runs, prev_fs>>
vars == <<tokenVars, extractVars, docsVars>>

-----------------------------------------------------------------------------
(* Bounds of the model *)

\* longest text after the 'Qgs' prefix of an identifier handed to
\* current_subgroup
MaxTailLen == 6

\* longest identifier listing handed to extract_package_subgroups
MaxLen == 3

\* longest dir(package) listing of a package in generate_docs
MaxListing == 3

\* how many times in succession generate_docs is run
MaxRuns == 2

-----------------------------------------------------------------------------
(* Characters and string literals *)

Upper ==
    {"A", "B", "C", "D", "E", "F", "G", "H", "I", "J", "K", "L", "M",
     "N", "O", "P", "Q", "R", "S", "T", "U", "V", "W", "X", "Y", "Z"}

Lower ==
    {"a", "b", "c", "d", "e", "f", "g", "h", "i", "j", "k", "l", "m",
     "n", "o", "p", "q", "r", "s", "t", "u", "v", "w", "x", "y", "z"}

\* the literal 'Qgs'
Qgs == <<"Q", "g", "s">>

\* the literal 'other'
other == <<"o", "t", "h", "e", "r">>

\* Python's None; "None" is no character, so no string equals it
None == <<"None">>

\* limit = False
limit == FALSE

\* class_limit = 'QgsAdvancedDigitizingCanvasItem'
class_limit ==
    <<"Q", "g", "s", "A", "d", "v", "a", "n", "c", "e", "d",
      "D", "i", "g", "i", "t", "i", "z", "i", "n", "g",
      "C", "a", "n", "v", "a", "s", "I", "t", "e", "m">>

\* the characters identifiers are drawn from in SpecToken
Alphabet == {"Q", "g", "s", "F", "o", "3"}

\* the identifiers packages are made of in SpecExtract
Names ==
    { <<"Q", "g", "s", "F", "o", "o">>,
      <<"Q", "g", "s", "F", "o", "o", "B", "a", "r">>,
      <<"Q", "g", "s", "B", "a", "r">>,
      <<"F", "o", "o">>,
      <<"Q", "g", "s">>,
      <<"Q", "g", "s", "3", "d", "F", "o", "o">>,
      <<"Q", "g", "s", "Q", "g", "s", "F", "o", "o">>,
      <<"Q", "g", "s", "F", "o", "o", "Q", "g", "s", "b", "a", "r">>,
      <<"Q", "g", "s", "Q", "g", "s">> }

\* all sequences over S of length at most n
BoundedSeq(S, n) == UNION {[1..k -> S] : k \in 0..n}

-----------------------------------------------------------------------------
(* Python string and list primitives *)

Min(a, b) == IF a < b THEN a ELSE b

\* s[lo:hi] for 0 <= lo <= hi
Slice(s, lo, hi) == SubSeq(s, lo + 1, Min(hi, Len(s)))

\* s.startswith(p)
StartsWith(s, p) == Len(s) >= Len(p) /\ SubSeq(s, 1, Len(p)) = p

\* x in xs, for a list xs
In(x, xs) == \E i \in 1..Len(xs) : xs[i] = x

\* s.replace(old, new) for a non-empty old: every non-overlapping occurrence,
\* scanning left to right
RECURSIVE Replace(_, _, _)
Replace(s, old, new) ==
    IF Len(s) < Len(old) THEN s
    ELSE IF SubSeq(s, 1, Len(old)) = old
         THEN new \o Replace(SubSeq(s, Len(old) + 1, Len(s)), old, new)
         ELSE <<Head(s)>> \o Replace(Tail(s), old, new)

\* the characters of the model in the order of their code points
CodeOrder ==
    <<".", "3",
      "A", "B", "C", "D", "E", "F", "G", "H", "I", "J", "K", "L", "M",
      "N", "O", "P", "Q", "R", "S", "T", "U", "V", "W", "X", "Y", "Z",
      "a", "b", "c", "d", "e", "f", "g", "h", "i", "j", "k", "l", "m",
      "n", "o", "p", "q", "r", "s", "t", "u", "v", "w", "x", "y", "z">>

\* ord(c)
Ord(c) == CHOOSE i \in 1..Len(CodeOrder) : CodeOrder[i] = c

\* s < t for strings
RECURSIVE StrLess(_, _)
StrLess(s, t) ==
    IF t = <<>> THEN FALSE
    ELSE IF s = <<>> THEN TRUE
    ELSE IF Head(s) = Head(t) THEN StrLess(Tail(s), Tail(t))
    ELSE Ord(Head(s)) < Ord(Head(t))

\* x put into the sorted list xs, after the elements equal to it
RECURSIVE Insert(_, _)
Insert(x, xs) ==
    IF xs = <<>> THEN <<x>>
    ELSE IF StrLess(x, Head(xs)) THEN <<x>> \o xs
    ELSE <<Head(xs)>> \o Insert(x, Tail(xs))

\* sorted(xs)
RECURSIVE Sorted(_)
Sorted(xs) == IF xs = <<>> THEN <<>> ELSE Insert(xs[Len(xs)], Sorted(SubSeq(xs, 1, Len(xs) - 1)))

\* dir(obj) for an object whose __dir__ gives names: the names sorted, a
\* name given twice is listed twice
Dir(names) == Sorted(names)

\* the greedy match of [a-z]* at the start of s
RECURSIVE LowerRun(_)
LowerRun(s) ==
    IF s = <<>> \/ Head(s) \notin Lower THEN <<>>
    ELSE <<Head(s)>> \o LowerRun(Tail(s))

\* re.search('^[A-Z][a-z]*', s).group(0); None where re.search returns None
\* and .group raises the AttributeError that current_subgroup catches
ReSearchFirstWord(s) ==
    IF s = <<>> \/ Head(s) \notin Upper THEN None
    ELSE <<Head(s)>> \o LowerRun(Tail(s))

-----------------------------------------------------------------------------
(* current_subgroup *)

\* stripped_prefix = class_name.replace('Qgs', '')
StrippedPrefix(name) == Replace(name, Qgs, <<>>)

current_subgroup(name) == ReSearchFirstWord(StrippedPrefix(name))

-----------------------------------------------------------------------------
(* OrderedDict: a sequence of [key, val] records in insertion order *)

HasKey(d, k) == \E i \in 1..Len(d) : d[i].key = k

\* d[k], for a key of d
GetItem(d, k) == d[CHOOSE i \in 1..Len(d) : d[i].key = k].val

\* d[k] = v
SetItem(d, k, v) ==
    IF HasKey(d, k)
    THEN [i \in 1..Len(d) |-> IF d[i].key = k THEN [key |-> k, val |-> v] ELSE d[i]]
    ELSE Append(d, [key |-> k, val |-> v])

\* a variant of AppendItem that inserts at the front of the list
PrependItem(d, k, x) ==
    [i \in 1..Len(d) |-> IF d[i].key = k
                          THEN [key |-> k, val |-> <<x>> \o d[i].val]
                          ELSE d[i]]

\* d[k].append(x)
AppendItem(d, k, x) ==
    [i \in 1..Len(d) |-> IF d[i].key = k
                          THEN [key |-> k, val |-> Append(d[i].val, x)]
                          ELSE d[i]]

-----------------------------------------------------------------------------
(* extract_package_subgroups *)

\* a variant of Skipped without the prefix check
SkippedNoPrefixCheck(name) ==
    \/ limit /\ ~StartsWith(name, class_limit)
    \/ current_subgroup(name) = None

\* the filter both loops apply before looking at the subgroup
Skipped(name) ==
    \/ limit /\ ~StartsWith(name, class_limit)
    \/ Slice(name, 0, 3) # Qgs
    \/ current_subgroup(name) = None

\* a variant of FirstLoopBody that makes a group the first time a subgroup
\* is found
FirstLoopBodyEager(name, st) ==
    IF Skipped(name) THEN st
    ELSE LET subgroup == current_subgroup(name) IN
         IF ~In(subgroup, st.subgroups)
         THEN [st EXCEPT !.subgroups = Append(@, subgroup),
                         !.result = SetItem(@, subgroup, <<>>)]
         ELSE st

\* one iteration of the first loop; st = [candidates, subgroups, result]
FirstLoopBody(name, st) ==
    IF Skipped(name) THEN st
    ELSE LET subgroup == current_subgroup(name) IN
         IF ~In(subgroup, st.candidates)
         THEN [st EXCEPT !.candidates = Append(@, subgroup)]
         ELSE IF ~In(subgroup, st.subgroups)
              THEN [st EXCEPT !.subgroups = Append(@, subgroup),
                              !.result = SetItem(@, subgroup, <<>>)]
              ELSE st

RECURSIVE FirstLoop(_, _)
FirstLoop(cls, st) ==
    IF cls = <<>> THEN st
    ELSE FirstLoop(Tail(cls), FirstLoopBody(Head(cls), st))

\* a variant of AddOther that adds the bucket only when no group was made
AddOtherIfEmpty(st) ==
    IF st.result # <<>> THEN st
    ELSE [st EXCEPT !.subgroups = Append(@, other),
                    !.result = SetItem(@, other, <<>>)]

\* subgroups.append('other'); result['other'] = []
AddOther(st) ==
    [st EXCEPT !.subgroups = Append(@, other),
               !.result = SetItem(@, other, <<>>)]

\* a variant of SecondLoopBody that also adds grouped classes to 'other'
SecondLoopBodyBoth(name, res) ==
    IF Skipped(name) THEN res
    ELSE LET subgroup == current_subgroup(name) IN
         IF HasKey(res, subgroup)
         THEN AppendItem(AppendItem(res, subgroup, name), other, name)
         ELSE AppendItem(res, other, name)

\* one iteration of the second loop
SecondLoopBody(name, res) ==
    IF Skipped(name) THEN res
    ELSE LET subgroup == current_subgroup(name) IN
         IF HasKey(res, subgroup)
         THEN AppendItem(res, subgroup, name)
         ELSE AppendItem(res, other, name)

RECURSIVE SecondLoop(_, _)
SecondLoop(cls, res) ==
    IF cls = <<>> THEN res
    ELSE SecondLoop(Tail(cls), SecondLoopBody(Head(cls), res))

\* a variant of extract_package_subgroups that assigns each class while the
\* subgroups are still being discovered, in a single loop
RECURSIVE SingleLoop(_, _)
SingleLoop(cls, st) ==
    IF cls = <<>> THEN st
    ELSE LET st1 == FirstLoopBody(Head(cls), st)
         IN  SingleLoop(Tail(cls),
                        [st1 EXCEPT !.result = SecondLoopBody(Head(cls), @)])

extract_single_loop(cls) ==
    LET st0 == [candidates |-> <<>>, subgroups |-> <<other>>,
                result |-> <<[key |-> other, val |-> <<>>]>>]
    IN  SingleLoop(cls, st0).result

\* lines 183-224, for cls = dir(package)
extract_package_subgroups(cls) ==
    LET st0 == [candidates |-> <<>>, subgroups |-> <<>>, result |-> <<>>]
        st1 == AddOther(FirstLoop(cls, st0))
    IN  SecondLoop(cls, st1.result)

-----------------------------------------------------------------------------
(* generate_docs: names, paths and texts *)

api == <<"a", "p", "i">>

build == <<"b", "u", "i", "l", "d">>

core == <<"c", "o", "r", "e">>

gui == <<"g", "u", "i">>

analysis == <<"a", "n", "a", "l", "y", "s", "i", "s">>

\* the file name 'index.rst'
index_rst == <<"i", "n", "d", "e", "x", ".", "r", "s", "t">>

\* the suffix '.rst'
dot_rst == <<".", "r", "s", "t">>

\* the keys of packages, in the order of packages.items()
packages == IF ~limit THEN <<core, gui, analysis>> ELSE <<gui>>

\* the names the modules core, gui and analysis are made of
ModuleNames ==
    { <<"F", "o", "o">>,
      <<"Q", "g", "s", "B", "a", "r">>,
      <<"Q", "g", "s", "F", "o", "o">>,
      <<"Q", "g", "s", "F", "o", "o", "B", "a", "r">> }

\* the names of the set S in any order
RECURSIVE AsList(_)
AsList(S) == IF S = {} THEN <<>> ELSE LET x == CHOOSE y \in S : TRUE IN <<x>> \o AsList(S \ {x})

\* dir(module) for the modules: a module holds a name once
Listings ==
    {Dir(AsList(S)) : S \in {T \in SUBSET ModuleNames : Cardinality(T) <= MaxListing}}

\* a piece of text written to a file: a format and what is put into it
Text(fmt, args) == [fmt |-> fmt, args |-> args]

document_header == Text("document_header", <<>>)

document_footer == Text("document_footer", <<>>)

\* package_header.replace('PACKAGENAME', name)
package_header(name) == Text("package_header", <<name>>)

\* sub_group_header.replace('SUBGROUPNAME', name)
sub_group_header(name) == Text("sub_group_header", <<name>>)

\* '   %s/index\n' % name
IndexLine(name) == Text("   %s/index\n", <<name>>)

\* '   %s\n' % name
ClassLine(name) == Text("   %s\n", <<name>>)

\* the text of rst/qgis_pydoc_template.txt: literal text and $-placeholders
template_text == <<"Class: ", "$CLASS", " of ", "$PACKAGE", ".", "$SUBGROUP">>

\* Template(template_text).substitute(PACKAGE=.., SUBGROUP=.., CLASS=..), as
\* print(class_template, file=class_rst) writes it
Substitute(tpl, package_name, package_subgroup, name) ==
    Text("class_template",
         [i \in 1..Len(tpl) |->
             IF tpl[i] = "$PACKAGE" THEN package_name
             ELSE IF tpl[i] = "$SUBGROUP" THEN package_subgroup
             ELSE IF tpl[i] = "$CLASS" THEN name
             ELSE <<tpl[i]>>])

\* text left by whatever filled the output location before
stale_text == Text("stale", <<>>)

-----------------------------------------------------------------------------
(* The file system: fs.dirs is the set of directories, fs.files maps the    *)
(* path of each file to the texts written to it; a path is the sequence of  *)
(* its components                                                           *)

NoFiles == [p \in {} |-> <<>>]

\* the directory a path lies in
Parent(p) == SubSeq(p, 1, Len(p) - 1)

Exists(f, p) == p \in f.dirs \/ p \in DOMAIN f.files

\* rmtree(root, ignore_errors=True): root and everything under it is gone,
\* and a missing root is no error
RmTree(f, root) ==
    [dirs |-> {p \in f.dirs : ~StartsWith(p, root)},
     files |-> [p \in {q \in DOMAIN f.files : ~StartsWith(q, root)} |-> f.files[p]]]

\* mkdir(p) raises when p exists or its parent is no directory
MkdirRaises(f, p) == Exists(f, p) \/ (Len(p) > 1 /\ Parent(p) \notin f.dirs)

Mkdir(f, p) == [f EXCEPT !.dirs = @ \cup {p}]

\* open(p, 'w') in a directory that exists: the file is created or truncated
OpenW(f, p) ==
    [f EXCEPT !.files = [q \in DOMAIN @ \cup {p} |-> IF q = p THEN <<>> ELSE @[q]]]

\* file.write(text) on the open file at p
Write(f, p, text) == [f EXCEPT !.files[p] = Append(@, text)]

\* a variant of ClearOutput that keeps what is there and only makes sure
\* that 'api' exists
ClearOutputKeep(f) == Mkdir(f, <<api>>)

\* rmtree('build', ignore_errors=True); rmtree('api', ignore_errors=True);
\* mkdir('api'), which cannot raise after the rmtree
ClearOutput(f) == Mkdir(RmTree(RmTree(f, <<build>>), <<api>>), <<api>>)

\* the output location before the first run: absent, empty, or a stale tree
AbsentTree == [dirs |-> {}, files |-> NoFiles]

EmptyTree == [dirs |-> {<<api>>}, files |-> NoFiles]

old == <<"o", "l", "d">>

StaleTree ==
    [dirs |-> {<<api>>, <<api, old>>, <<build>>},
     files |-> [p \in {<<api, index_rst>>, <<api, old, index_rst>>, <<build, index_rst>>}
                  |-> <<stale_text>>]]

PriorTrees == {AbsentTree, EmptyTree, StaleTree}

-----------------------------------------------------------------------------
(* generate_docs, one action for each stretch of statements between two     *)
(* points where a file is opened or closed                                  *)

TokenIdle == class_name = <<>> /\ first_word = None /\ tpc = "off"

ExtractIdle == package = <<>> /\ classes = <<>> /\ result = <<>> /\ xpc = "off"

NoPath == <<>>

NoHandles ==
    [index |-> NoPath, package_index |-> NoPath, subgroup_index |-> NoPath,
     class_rst |-> NoPath]

DocsIdle ==
    /\ listing = <<>>
    /\ fs = AbsentTree
    /\ pc = "off"
    /\ handles = NoHandles
    /\ open_files = {}
    /\ pi = 0 /\ si = 0 /\ ci = 0
    /\ package_subgroups = <<>>
    /\ runs = 0
    /\ prev_fs = AbsentTree

Init ==
    /\ listing \in [1..Len(packages) -> Listings]
    /\ fs \in PriorTrees
    /\ pc = "idle"
    /\ handles = NoHandles
    /\ open_files = {}
    /\ pi = 0 /\ si = 0 /\ ci = 0
    /\ package_subgroups = <<>>
    /\ runs = 0
    /\ prev_fs = fs
    /\ TokenIdle
    /\ ExtractIdle

package_name == packages[pi]

package_subgroup == package_subgroups[si].key

class_list == package_subgroups[si].val

\* lines 71-87: clear the output, open the root index, write its header
Start ==
    /\ pc \in {"idle", "done"}
    /\ runs < MaxRuns
    /\ runs' = runs + 1
    /\ prev_fs' = fs
    /\ LET f1 == ClearOutput(fs)
           p == <<api, index_rst>>
       IN  /\ fs' = Write(OpenW(f1, p), p, document_header)
           /\ handles' = [NoHandles EXCEPT !.index = p]
           /\ open_files' = {p}
    /\ pi' = 1
    /\ si' = 0 /\ ci' = 0
    /\ package_subgroups' = <<>>
    /\ pc' = "package"
    /\ UNCHANGED <<listing, tokenVars, extractVars>>

\* lines 89-97: the next package
PackageBegin ==
    /\ pc = "package"
    /\ pi <= Len(packages)
    /\ LET d == <<api, package_name>>
           p == <<api, package_name, index_rst>>
       IN  IF MkdirRaises(fs, d)
           THEN /\ pc' = "raised"
                /\ package_subgroups' = extract_package_subgroups(listing[pi])
                /\ UNCHANGED <<fs, handles, open_files, si>>
           ELSE /\ package_subgroups' = extract_package_subgroups(listing[pi])
                /\ fs' = Write(OpenW(Write(Mkdir(fs, d), handles.index,
                                           IndexLine(package_name)), p),
                               p, package_header(package_name))
                /\ handles' = [handles EXCEPT !.package_index = p]
                /\ open_files' = open_files \cup {p}
                /\ si' = 1
                /\ pc' = "subgroup"
    /\ UNCHANGED <<listing, pi, ci, runs, prev_fs, tokenVars, extractVars>>

\* lines 98-106: the next subgroup of the package
SubgroupBegin ==
    /\ pc = "subgroup"
    /\ si <= Len(package_subgroups)
    /\ LET d == <<api, package_name, package_subgroup>>
           p == <<api, package_name, package_subgroup, index_rst>>
           f1 == Write(fs, handles.package_index, IndexLine(package_subgroup))
       IN  IF MkdirRaises(f1, d)
           THEN /\ pc' = "raised"
                /\ fs' = f1
                /\ UNCHANGED <<handles, open_files, ci>>
           ELSE /\ fs' = Write(OpenW(Mkdir(f1, d), p), p,
                               sub_group_header(package_subgroup))
                /\ handles' = [handles EXCEPT !.subgroup_index = p]
                /\ open_files' = open_files \cup {p}
                /\ ci' = 1
                /\ pc' = "class"
    /\ UNCHANGED <<listing, pi, package_subgroups, si, runs, prev_fs,
                   tokenVars, extractVars>>

\* a variant of PrefixIsQgs that compares the whole name with 'Qgs'
NameIsQgs(name) == name = Qgs

\* lines 108-109: prefix = class_name[0:3]; prefix != 'Qgs' is the negation
PrefixIsQgs(name) == Slice(name, 0, 3) = Qgs

\* lines 107-123: the next class of the subgroup, up to the print into its
\* leaf file; a class that fails the prefix check is passed over
ClassOpen ==
    /\ pc = "class"
    /\ ci <= Len(class_list)
    /\ LET name == class_list[ci]
           p == <<api, package_name, package_subgroup, name \o dot_rst>>
       IN  IF ~PrefixIsQgs(name)
           THEN /\ ci' = ci + 1
                /\ UNCHANGED <<fs, handles, open_files, pc>>
           ELSE /\ fs' = Write(OpenW(fs, p), p,
                               Substitute(template_text, package_name,
                                          package_subgroup, name))
                /\ handles' = [handles EXCEPT !.class_rst = p]
                /\ open_files' = open_files \cup {p}
                /\ pc' = "class_close"
                /\ UNCHANGED ci
    /\ UNCHANGED <<listing, pi, package_subgroups, si, runs, prev_fs,
                   tokenVars, extractVars>>

\* lines 124-126: class_rst.close(), then the line in the subgroup index
ClassClose ==
    /\ pc = "class_close"
    /\ open_files' = open_files \ {handles.class_rst}
    /\ fs' = Write(fs, handles.subgroup_index, ClassLine(class_list[ci]))
    /\ ci' = ci + 1
    /\ pc' = "class"
    /\ UNCHANGED <<listing, handles, pi, package_subgroups, si, runs, prev_fs,
                   tokenVars, extractVars>>

\* a variant of SubgroupClose that leaves the subgroup index open
SubgroupCloseMissing ==
    /\ pc = "class"
    /\ ci > Len(class_list)
    /\ si' = si + 1
    /\ pc' = "subgroup"
    /\ UNCHANGED <<listing, fs, handles, open_files, pi, package_subgroups, ci,
                   runs, prev_fs, tokenVars, extractVars>>

\* line 127: the class loop is over; subgroup_index.close()
SubgroupClose ==
    /\ pc = "class"
    /\ ci > Len(class_list)
    /\ open_files' = open_files \ {handles.subgroup_index}
    /\ si' = si + 1
    /\ pc' = "subgroup"
    /\ UNCHANGED <<listing, fs, handles, pi, package_subgroups, ci, runs, prev_fs,
                   tokenVars, extractVars>>

\* line 128: the subgroup loop is over; package_index.close()
PackageClose ==
    /\ pc = "subgroup"
    /\ si > Len(package_subgroups)
    /\ open_files' = open_files \ {handles.package_index}
    /\ pi' = pi + 1
    /\ pc' = "package"
    /\ UNCHANGED <<listing, fs, handles, package_subgroups, si, ci, runs, prev_fs,
                   tokenVars, extractVars>>

\* line 130: the package loop is over; index.write(document_footer)
WriteFooter ==
    /\ pc = "package"
    /\ pi > Len(packages)
    /\ fs' = Write(fs, handles.index, document_footer)
    /\ pc' = "footer"
    /\ UNCHANGED <<listing, handles, open_files, pi, package_subgroups, si, ci,
                   runs, prev_fs, tokenVars, extractVars>>

\* line 131: index.close()
IndexClose ==
    /\ pc = "footer"
    /\ open_files' = open_files \ {handles.index}
    /\ pc' = "done"
    /\ UNCHANGED <<listing, fs, handles, pi, package_subgroups, si, ci, runs,
                   prev_fs, tokenVars, extractVars>>

Next ==
    \/ Start
    \/ PackageBegin
    \/ SubgroupBegin
    \/ ClassOpen
    \/ ClassClose
    \/ SubgroupClose
    \/ PackageClose
    \/ WriteFooter
    \/ IndexClose

Spec == Init /\ [][Next]_vars

-----------------------------------------------------------------------------
(* SpecToken: current_subgroup applied to every bounded identifier that     *)
(* passes the prefix check of its two callers                              *)

InitToken ==
    /\ class_name \in {Qgs \o t : t \in BoundedSeq(Alphabet, MaxTailLen)}
    /\ first_word = None
    /\ tpc = "ready"
    /\ ExtractIdle
    /\ DocsIdle

CallCurrentSubgroup ==
    /\ tpc = "ready"
    /\ first_word' = current_subgroup(class_name)
    /\ tpc' = "returned"
    /\ UNCHANGED <<class_name, extractVars, docsVars>>

NextToken == CallCurrentSubgroup

SpecToken == InitToken /\ [][NextToken]_vars

-----------------------------------------------------------------------------
(* SpecExtract: extract_package_subgroups applied to every bounded package *)

InitExtract ==
    /\ package \in BoundedSeq(Names, MaxLen)
    /\ classes = <<>>
    /\ result = <<>>
    /\ xpc = "ready"
    /\ TokenIdle
    /\ DocsIdle

CallExtract ==
    /\ xpc = "ready"
    /\ classes' = Dir(package)
    /\ result' = extract_package_subgroups(classes')
    /\ xpc' = "returned"
    /\ UNCHANGED <<package, tokenVars, docsVars>>

NextExtract == CallExtract

SpecExtract == InitExtract /\ [][NextExtract]_vars

-----------------------------------------------------------------------------
(* Properties of current_subgroup *)

\* the reference token: only the leading 3-character prefix is removed, then
\* the leading run of one uppercase letter and lowercase letters is taken
ReferenceToken(name) == ReSearchFirstWord(SubSeq(name, 4, Len(name)))

\* C7: for every identifier beginning with 'Qgs', the token computed by
\* current_subgroup equals the reference token (None when there is no run),
\* also for identifiers that contain 'Qgs' again after the prefix.
C7_TokenIsReference ==
    (tpc = "returned" /\ StartsWith(class_name, Qgs))
        => first_word = ReferenceToken(class_name)

-----------------------------------------------------------------------------
(* Properties of extract_package_subgroups *)

Returned == xpc = "returned"

\* the positions of the listing
Pos == 1..Len(classes)

\* an identifier that passes the prefix check and has a token
Eligible(name) == StartsWith(name, Qgs) /\ current_subgroup(name) # None

\* how often token t is derived from an eligible identifier of the listing
TokenCount(t) ==
    Cardinality({i \in Pos : Eligible(classes[i]) /\ current_subgroup(classes[i]) = t})

\* the entries of the mapping whose member list holds name
SubgroupsOf(name) == {j \in 1..Len(result) : In(name, result[j].val)}

\* no label is bound twice in the mapping
UniqueKeys == \A i, j \in 1..Len(result) : result[i].key = result[j].key => i = j

\* C1: every identifier appears in at most one subgroup of the returned
\* mapping, also when the listing repeats names or a name holds 'Qgs' twice.
C1_AtMostOneSubgroup ==
    Returned =>
        /\ UniqueKeys
        /\ \A n \in Names : Cardinality(SubgroupsOf(n)) <= 1

\* a listing with a repeated eligible name and a name holding 'Qgs' twice,
\* spread over a dedicated subgroup and 'other'
C1_Witness ==
    /\ Returned
    /\ \E i, j \in Pos : i # j /\ classes[i] = classes[j] /\ Eligible(classes[i])
    /\ \E i \in Pos : Eligible(classes[i]) /\ StartsWith(SubSeq(classes[i], 4, Len(classes[i])), Qgs)
    /\ Len(result) >= 2
    /\ \A j \in 1..Len(result) : result[j].val # <<>>

C3_RepeatedInDedicated ==
    Returned =>
        \A i \in Pos :
            (Eligible(classes[i]) /\ TokenCount(current_subgroup(classes[i])) >= 2)
                => /\ HasKey(result, current_subgroup(classes[i]))
                   /\ In(classes[i], GetItem(result, current_subgroup(classes[i])))
                   /\ ~In(classes[i], GetItem(result, other))

\* the first occurrence of a token is the first entry of the listing, the
\* second occurrence is the last, and something else lies between them
C3_Witness ==
    /\ Returned
    /\ Len(classes) = 3
    /\ Eligible(classes[1]) /\ Eligible(classes[2]) /\ Eligible(classes[3])
    /\ current_subgroup(classes[1]) = current_subgroup(classes[3])
    /\ current_subgroup(classes[1]) # current_subgroup(classes[2])
    /\ classes[1] # classes[3]
    /\ In(classes[1], GetItem(result, current_subgroup(classes[1])))

\* an identifier without the prefix, or whose text after the prefix does not
\* begin with an uppercase letter
Ineligible(name) ==
    \/ ~StartsWith(name, Qgs)
    \/ Len(name) = 3
    \/ name[4] \notin Upper

\* how often token t is derived from an identifier that is not Ineligible
CountedFor(t) ==
    Cardinality({i \in Pos : ~Ineligible(classes[i]) /\ current_subgroup(classes[i]) = t})

\* C4: an identifier without the 'Qgs' prefix or without a derivable token
\* is in no subgroup (not in 'other' either), labels no subgroup, and is not
\* counted toward promoting a token: every dedicated label rests on two
\* occurrences among the other identifiers.
C4_IneligibleExcluded ==
    Returned =>
        /\ \A i \in Pos : Ineligible(classes[i]) => SubgroupsOf(classes[i]) = {}
        /\ \A j \in 1..Len(result) :
               result[j].key # other => CountedFor(result[j].key) >= 2

\* 'Foo' and 'QgsFoo' together: the unprefixed name must not promote Foo
C4_Witness ==
    /\ Returned
    /\ \E i, j, k \in Pos :
          /\ ~StartsWith(classes[i], Qgs)
          /\ Eligible(classes[j])
          /\ current_subgroup(classes[j]) = classes[i]
          /\ StartsWith(classes[k], Qgs) /\ Ineligible(classes[k])
    /\ GetItem(result, other) # <<>>

\* C5: 'other' is always a key of the mapping, and a listing with no
\* eligible identifier (the empty one included) gives exactly {'other': []}.
C5_OtherAlwaysPresent ==
    Returned =>
        /\ HasKey(result, other)
        /\ (\A i \in Pos : ~Eligible(classes[i]))
               => result = <<[key |-> other, val |-> <<>>]>>

\* a non-empty listing with no eligible identifier
C5_Witness ==
    /\ Returned
    /\ classes # <<>>
    /\ \A i \in Pos : ~Eligible(classes[i])
    /\ result = <<[key |-> other, val |-> <<>>]>>

\* xs holds no element twice
NoDuplicates(xs) == \A i, j \in 1..Len(xs) : xs[i] = xs[j] => i = j

\* the label an eligible identifier is assigned to
LabelOf(name) ==
    IF HasKey(result, current_subgroup(name)) THEN current_subgroup(name) ELSE other

\* the occurrences of the listing assigned to label k, in listing order
OccurrencesOf(k) ==
    LET Assigned(n) == Eligible(n) /\ LabelOf(n) = k
    IN  SelectSeq(classes, Assigned)

\* the position of the first occurrence of name in the listing
FirstPos(name) == CHOOSE i \in Pos : classes[i] = name /\ \A j \in 1..(i - 1) : classes[j] # name

-----------------------------------------------------------------------------
(* Properties of generate_docs *)

RootIndex == <<api, index_rst>>

IsNamespaceIndex(p) == Len(p) = 3 /\ p[1] = api /\ p[3] = index_rst

IsSubgroupIndex(p) == Len(p) = 4 /\ p[1] = api /\ p[4] = index_rst

IsLeaf(p) == Len(p) = 4 /\ p[1] = api /\ p[4] # index_rst

\* the mapping of the k-th package
MappingOf(k) == extract_package_subgroups(listing[k])

\* C6: a second run in succession, on the same listings and template, ends
\* with the tree the run before it ended with, whatever the output location
\* held before the first run; nothing of an earlier tree survives a run.
C6_SecondRunSameTree ==
    pc = "done" =>
        /\ runs >= 2 => fs = prev_fs
        /\ \A p \in DOMAIN fs.files : ~In(stale_text, fs.files[p])
        /\ fs.dirs \cap StaleTree.dirs \subseteq {<<api>>}

\* the second run has ended and left leaf files
C6_Witness ==
    /\ pc = "done"
    /\ runs = 2
    /\ \E p \in DOMAIN fs.files : IsLeaf(p)
    /\ \E p \in DOMAIN fs.files : IsSubgroupIndex(p) /\ p[3] # other

\* the texts of the subgroup index of entry e
ExpectedSubgroupIndex(e) ==
    <<sub_group_header(e.key)>> \o [i \in 1..Len(e.val) |-> ClassLine(e.val[i])]

\* the files a run leaves for the listings
ExpectedPaths ==
    {RootIndex}
    \cup {<<api, packages[k], index_rst>> : k \in 1..Len(packages)}
    \cup UNION {{<<api, packages[k], MappingOf(k)[j].key, index_rst>> :
                    j \in 1..Len(MappingOf(k))} : k \in 1..Len(packages)}
    \cup UNION {UNION {{<<api, packages[k], MappingOf(k)[j].key,
                          MappingOf(k)[j].val[i] \o dot_rst>> :
                            i \in 1..Len(MappingOf(k)[j].val)} :
                    j \in 1..Len(MappingOf(k))} : k \in 1..Len(packages)}

\* C9: every identifier of every subgroup list of the mapping passes the
\* prefix check of generate_docs, so a finished run has written one leaf file
\* for each (namespace, subgroup, identifier) of the mapping, one reference
\* line for it in the subgroup index, in list order, and no other file.
C9_GuardIsNoOp ==
    pc = "done" =>
        /\ \A k \in 1..Len(packages) : \A j \in 1..Len(MappingOf(k)) :
             LET e == MappingOf(k)[j]
                 d == <<api, packages[k], e.key>>
             IN  /\ \A i \in 1..Len(e.val) : PrefixIsQgs(e.val[i])
                 /\ d \o <<index_rst>> \in DOMAIN fs.files
                 /\ fs.files[d \o <<index_rst>>] = ExpectedSubgroupIndex(e)
                 /\ \A i \in 1..Len(e.val) :
                      /\ d \o <<e.val[i] \o dot_rst>> \in DOMAIN fs.files
                      /\ fs.files[d \o <<e.val[i] \o dot_rst>>]
                           = <<Substitute(template_text, packages[k], e.key, e.val[i])>>
        /\ DOMAIN fs.files = ExpectedPaths

\* a finished run over a package with a dedicated subgroup and a non-empty
\* 'other', and over a listing that holds a name without the prefix
C9_Witness ==
    /\ pc = "done"
    /\ \E k \in 1..Len(packages) :
          /\ Len(MappingOf(k)) >= 2
          /\ \A j \in 1..Len(MappingOf(k)) : MappingOf(k)[j].val # <<>>
    /\ \E k \in 1..Len(packages) : \E i \in 1..Len(listing[k]) :
          ~PrefixIsQgs(listing[k][i])
    /\ \E p \in DOMAIN fs.files : IsLeaf(p)

OpenLeaves == {p \in open_files : IsLeaf(p)}

OpenSubgroupIndexes == {p \in open_files : IsSubgroupIndex(p)}

OpenNamespaceIndexes == {p \in open_files : IsNamespaceIndex(p)}

\* what holds of the open files at every point of a run
C10_ClosedInOrder ==
    /\ open_files \subseteq DOMAIN fs.files
    /\ Cardinality(OpenLeaves) <= 1
    /\ Cardinality(OpenSubgroupIndexes) <= 1
    /\ Cardinality(OpenNamespaceIndexes) <= 1
    /\ pc = "class" => OpenLeaves = {}
    /\ pc = "subgroup" => OpenLeaves = {} /\ OpenSubgroupIndexes = {}
    /\ pc \in {"package", "footer"} => open_files = {RootIndex}
    /\ (pc \notin {"idle", "off"} /\ RootIndex \notin open_files)
           => /\ open_files = {}
              /\ pc = "done"
              /\ fs.files[RootIndex][Len(fs.files[RootIndex])] = document_footer

\* during a run a file that is not open keeps its text
C10_NoWriteAfterClose ==
    pc \notin {"idle", "done", "off"} =>
        \A p \in DOMAIN fs.files \ open_files :
            p \in DOMAIN fs'.files /\ fs'.files[p] = fs.files[p]

=============================================================================
